---- MODULE Spec2Model ----
(***************************************************************************)
(* Call lifecycle state machine and webhook ingestion engine of dig_in.     *)
(*                                                                         *)
(* The model follows POST /api/webhooks/retell                              *)
(* (src/src/app/api/webhooks/retell/route.ts, lines 215-724) and the        *)
(* extraction orchestrator extractAnswers (src/src/lib/extractAnswers.ts,   *)
(* lines 360-474) for ONE call row and its paired artifact row.             *)
(*                                                                         *)
(* Optional JSON values are modelled as sequences of length <= 1:           *)
(* <<>> is undefined/null, <<v>> is the value v.                            *)
(* A text is a sequence of chunks (strings); its length is the sum of the   *)
(* chunk lengths and a search looks for a chunk, compared in lower case.    *)
(***************************************************************************)
EXTENDS Integers, Sequences, FiniteSets, TLC

\* ------------------------------------------------------------------------
\* Optional values and JavaScript truthiness
\* ------------------------------------------------------------------------

NONE == <<>>

Some(v) == <<v>>

IsSome(o) == o # <<>>

Opt(S) == {NONE} \cup {Some(v) : v \in S}

\* ------------------------------------------------------------------------
\* Texts
\* ------------------------------------------------------------------------

\* The chunks texts are built from, with their lower-case form
\* (String.prototype.toLowerCase, and the /i flag of the regular expressions).
ToLowerCase ==
  [c \in {"Agent:", "User:", " ", "At The Tone",
          "Hello, I would like to book a table for two tonight. ",
          "Sure, see you then.", "Sorry, he is ", "not available",
          "Please leave a message "} |->
     CASE c = "Agent:" -> "agent:"
       [] c = "User:" -> "user:"
       [] c = "At The Tone" -> "at the tone"
       [] c = "Hello, I would like to book a table for two tonight. " ->
            "hello, i would like to book a table for two tonight. "
       [] c = "Sure, see you then." -> "sure, see you then."
       [] c = "Sorry, he is " -> "sorry, he is "
       [] c = "Please leave a message " -> "please leave a message "
       [] OTHER -> c]

RECURSIVE TextLength(_)
\* transcript.length
TextLength(t) == IF t = <<>> THEN 0 ELSE Len(Head(t)) + TextLength(Tail(t))

\* lowerTranscript.includes(phrase), /agent:/i.test(transcript)
IncludesLower(t, needle) == \E i \in 1..Len(t) : ToLowerCase[t[i]] = needle

\* A JavaScript string is truthy iff it is not empty.
TruthyText(o) == IsSome(o) /\ \E i \in 1..Len(o[1]) : Len(o[1][i]) > 0

\* transcriptText.trim() is non-empty
TrimNonEmpty(t) == \E i \in 1..Len(t) : t[i] # " " /\ Len(t[i]) > 0

\* ------------------------------------------------------------------------
\* Program constants
\* ------------------------------------------------------------------------

STATUS_ORDER == <<"queued", "calling", "connected", "completed", "failed">>

VOICEMAIL_PHRASES ==
  {"forwarded to voicemail", "record your message", "at the tone", "not available"}

\* "real content" threshold of detectHumanAnswered
RealContentLength == 50

\* duration threshold (ms) of detectHumanAnswered
HumanDurationMs == 5000

\* STATUS_ORDER.indexOf(s), 0-based, -1 when absent
IndexOf(s) ==
  IF \E i \in 1..Len(STATUS_ORDER) : STATUS_ORDER[i] = s
  THEN (CHOOSE i \in 1..Len(STATUS_ORDER) : STATUS_ORDER[i] = s) - 1
  ELSE -1

\* ------------------------------------------------------------------------
\* Webhook payloads (route.ts 364-379)
\* ------------------------------------------------------------------------

\* A voicemail greeting: one speaker, a canonical phrase, under the length threshold.
TextVoicemail == <<"Please leave a message ", "At The Tone">>

\* A two-party conversation with real content.
TextDialog ==
  <<"Agent:", " ", "Hello, I would like to book a table for two tonight. ",
    "User:", " ", "Sure, see you then.">>

\* A two-party conversation in which a voicemail phrase is uttered.
TextDialogPhrase ==
  <<"Agent:", " ", "Hello, I would like to book a table for two tonight. ",
    "User:", " ", "Sorry, he is ", "not available">>

\* Both speaker labels but no content.
TextLabelsOnly == <<"Agent:", " ", "User:", " ">>

\* transcript_object values: arrays of turns {role, content}.
TurnsOne == <<[role |-> "agent", content |-> "Hello, I would like to book a table for two tonight. "]>>

TurnsTwo ==
  <<[role |-> "agent", content |-> "Hello, I would like to book a table for two tonight. "],
    [role |-> "user", content |-> "Sure, see you then."]>>

TurnsTwoOneBlank ==
  <<[role |-> "agent", content |-> "Hello, I would like to book a table for two tonight. "],
    [role |-> "user", content |-> " "]>>

Events == {"call_started", "call_ended", "call_analyzed", "call_connected"}

\* The envelope {event, call: {transcript?, transcript_object?, disconnection_reason?,
\* duration_ms?, call_analysis?: {in_voicemail?, call_successful?}}} over the given
\* field values. call_id is the id of the one call of the model.
PayloadsOver(evs, texts, turns, reasons, durations, flags, successes) ==
  [event : evs,
   transcript : texts,
   transcript_object : turns,
   disconnection_reason : reasons,
   duration_ms : durations,
   in_voicemail : flags,
   call_successful : successes]

\* The payloads the classifier is examined on.
ClassifierPayloads ==
  PayloadsOver(Events,
               Opt({<<>>, TextVoicemail, TextDialog, TextDialogPhrase, TextLabelsOnly}),
               Opt({<<>>, TurnsOne, TurnsTwo, TurnsTwoOneBlank}),
               Opt({<<"voicemail_reached">>, <<"dial_", "no_answer">>, <<"user_hangup">>}),
               Opt({0, 2000, 5000, 5001, 120000}),
               Opt(BOOLEAN),
               Opt(BOOLEAN))

\* The payloads delivered to the handler.
Payloads ==
  PayloadsOver(Events,
               Opt({TextVoicemail, TextDialog}),
               {NONE},
               Opt({<<"voicemail_reached">>}),
               {Some(2000), Some(120000)},
               {NONE},
               {NONE})

\* ------------------------------------------------------------------------
\* Outcome classifier (route.ts 244-317, 421-441)
\* ------------------------------------------------------------------------

\* route.ts 244-262
detectVoicemailFromAnalysis(in_voicemail, transcript) ==
  \/ in_voicemail = Some(TRUE)
  \/ /\ TruthyText(transcript)
     /\ \E phrase \in VOICEMAIL_PHRASES : IncludesLower(transcript[1], phrase)

\* A slip: only the dial_ prefix is tested, voicemail_reached is forgotten.
isDialFailureDisconnection_DialOnly(disconnectionReason) ==
  /\ TruthyText(disconnectionReason)
  /\ Head(disconnectionReason[1]) = "dial_"

\* route.ts 270-276; a reason is <<prefix, rest>> or <<whole>>
isDialFailureDisconnection(disconnectionReason) ==
  /\ TruthyText(disconnectionReason)
  /\ \/ disconnectionReason[1] = <<"voicemail_reached">>
     \/ Head(disconnectionReason[1]) = "dial_"

\* entry?.content && entry.content.trim().length > 0
HasContent(entry) == entry.content # "" /\ entry.content # " "

\* A slip: the duration is not taken as evidence of a conversation.
detectHumanAnswered_NoDuration(transcript, transcriptObject, durationMs) ==
  \/ /\ TruthyText(transcript)
     /\ IncludesLower(transcript[1], "agent:")
     /\ IncludesLower(transcript[1], "user:")
     /\ TextLength(transcript[1]) > RealContentLength
  \/ /\ IsSome(transcriptObject)
     /\ Len(transcriptObject[1]) > 1
     /\ Cardinality({i \in 1..Len(transcriptObject[1]) : HasContent(transcriptObject[1][i])}) > 1

\* route.ts 285-317
detectHumanAnswered(transcript, transcriptObject, durationMs) ==
  \/ /\ TruthyText(transcript)
     /\ IncludesLower(transcript[1], "agent:")
     /\ IncludesLower(transcript[1], "user:")
     /\ TextLength(transcript[1]) > RealContentLength
  \/ /\ IsSome(transcriptObject)
     /\ Len(transcriptObject[1]) > 1
     /\ Cardinality({i \in 1..Len(transcriptObject[1]) : HasContent(transcriptObject[1][i])}) > 1
  \/ /\ IsSome(durationMs)
     /\ durationMs[1] # 0
     /\ durationMs[1] > HumanDurationMs

\* route.ts 441
noHumanReached(p) ==
  /\ \/ detectVoicemailFromAnalysis(p.in_voicemail, p.transcript)
     \/ isDialFailureDisconnection(p.disconnection_reason)
  /\ ~detectHumanAnswered(p.transcript, p.transcript_object, p.duration_ms)

\* route.ts 482; an array, even empty, is truthy
hasTranscript(p) == TruthyText(p.transcript) \/ IsSome(p.transcript_object)

\* ------------------------------------------------------------------------
\* Storage rows
\* ------------------------------------------------------------------------

\* supabase .update(fields) / .upsert(fields): the named columns are overwritten,
\* the others keep their value. updated_at is not modelled.
ApplyUpdate(row, fields) == fields @@ row

\* No column.
NoFields == [c \in {} |-> NONE]

CallIntents == {"make_reservation", "questions_only"}

\* The calls row inserted by POST /api/calls (calls route 526-555); the status
\* timeline starts at queued, the handler of this revision inserts calling.
NewCall(status, intent) ==
  [status |-> status,
   is_extracting |-> FALSE,
   call_intent |-> intent,
   failure_reason |-> NONE,
   failure_details |-> NONE,
   reservation_status |-> IF intent = "make_reservation" THEN Some("requested") ELSE NONE,
   reservation_result_json |-> NONE]

\* The call_artifacts row upserted by POST /api/calls (calls route 572-581).
NewArtifact ==
  [transcript_text |-> NONE,
   transcript_json |-> NONE,
   answers_json |-> NONE,
   raw_provider_payload_json |-> NONE]

\* ------------------------------------------------------------------------
\* Status transition engine (route.ts 319-329, 443-608)
\* ------------------------------------------------------------------------

\* A slip: any other status is accepted, also an earlier one.
canProgressStatus_AnyOther(currentStatus, newStatus) ==
  \/ newStatus = "failed"
  \/ IndexOf(newStatus) # IndexOf(currentStatus)

\* A slip: a failed call may also move on to completed.
canProgressStatus_FailedToCompleted(currentStatus, newStatus) ==
  \/ newStatus = "failed"
  \/ IndexOf(newStatus) > IndexOf(currentStatus)
  \/ currentStatus = "failed" /\ newStatus = "completed"

\* route.ts 319-329
canProgressStatus(currentStatus, newStatus) ==
  \/ newStatus = "failed"
  \/ IndexOf(newStatus) > IndexOf(currentStatus)

\* route.ts 401-405, 415-419: the columns the handler reads at its start
ReadCallRow(call) ==
  [status |-> call.status,
   is_extracting |-> call.is_extracting,
   call_intent |-> call.call_intent,
   reservation_status |-> call.reservation_status]

\* A slip: only a failed call counts as terminal.
isTerminal_FailedOnly(row) == row.status = "failed" /\ ~row.is_extracting

\* route.ts 448-450
isTerminal(row) == row.status \in {"completed", "failed"} /\ ~row.is_extracting

\* route.ts 453-460
shouldAllowCallAnalyzedOverride(event, noHuman, currentStatus) ==
  /\ event = "call_analyzed"
  /\ \/ noHuman /\ currentStatus = "completed"
     \/ ~noHuman /\ currentStatus = "failed"

\* route.ts 509-525; the JSON text is modelled by the object it encodes
buildFailureDetails(p) ==
  (IF TruthyText(p.disconnection_reason)
     THEN "disconnection_reason" :> p.disconnection_reason[1] ELSE NoFields)
  @@ (IF IsSome(p.in_voicemail) THEN "in_voicemail" :> p.in_voicemail[1] ELSE NoFields)
  @@ (IF IsSome(p.call_successful)
        THEN "call_successful" :> p.call_successful[1] ELSE NoFields)
  @@ (IF IsSome(p.duration_ms) THEN "duration_ms" :> p.duration_ms[1] ELSE NoFields)
  @@ ("human_answered_detection" :>
        detectHumanAnswered(p.transcript, p.transcript_object, p.duration_ms))

\* route.ts 576-588
StatusForEvent(event) ==
  CASE event = "call_started" -> Some("calling")
    [] event \in {"call_ended", "call_analyzed"} -> Some("completed")
    [] OTHER -> NONE

\* route.ts 536-562: the no-human branch of callUpdates
NoHumanUpdates(p, row) ==
  LET detectedVoicemail == detectVoicemailFromAnalysis(p.in_voicemail, p.transcript)
  IN  ("status" :> "failed")
      @@ ("is_extracting" :> FALSE)
      @@ ("failure_reason" :>
            Some(IF detectedVoicemail THEN "The call went to voicemail."
                                      ELSE "Your phone call was not answered"))
      @@ ("failure_details" :> Some(buildFailureDetails(p)))
      @@ (IF row.call_intent = "make_reservation" /\ row.reservation_status = Some("requested")
            THEN ("reservation_status" :> Some("needs_followup"))
                 @@ ("reservation_result_json" :>
                       Some([failure_category |-> "call_back_later",
                             failure_reason |-> IF detectedVoicemail
                                                  THEN "Call went to voicemail"
                                                  ELSE "Call was not answered"]))
            ELSE NoFields)

\* A slip: the missing transcript is not recorded as the failure reason.
HumanUpdates_NoReason(p, row) ==
  LET newStatus == StatusForEvent(p.event)
  IN  (IF IsSome(newStatus) /\ canProgressStatus(row.status, newStatus[1])
         THEN "status" :> newStatus[1] ELSE NoFields)
      @@ (IF p.event \in {"call_ended", "call_analyzed"}
            THEN "is_extracting" :> hasTranscript(p)
            ELSE NoFields)

\* route.ts 571-608: the human branch of callUpdates
HumanUpdates(p, row) ==
  LET newStatus == StatusForEvent(p.event)
  IN  (IF IsSome(newStatus) /\ canProgressStatus(row.status, newStatus[1])
         THEN "status" :> newStatus[1] ELSE NoFields)
      @@ (IF p.event \in {"call_ended", "call_analyzed"}
            THEN IF hasTranscript(p)
                   THEN "is_extracting" :> TRUE
                   ELSE ("is_extracting" :> FALSE)
                        @@ ("failure_reason" :> Some("transcript_missing"))
            ELSE NoFields)

\* A slip: call_successful false is taken as no human reached.
callUpdates_BySuccess(p, row, noHuman) ==
  IF noHuman \/ p.call_successful = Some(FALSE)
    THEN NoHumanUpdates(p, row) ELSE HumanUpdates(p, row)

\* route.ts 504-608
callUpdates(p, row, noHuman) ==
  IF noHuman THEN NoHumanUpdates(p, row) ELSE HumanUpdates(p, row)

\* route.ts 626-638
artifactData(p) ==
  ("raw_provider_payload_json" :> Some(p))
  @@ (IF TruthyText(p.transcript) THEN "transcript_text" :> p.transcript ELSE NoFields)
  @@ (IF IsSome(p.transcript_object)
        THEN "transcript_json" :> p.transcript_object ELSE NoFields)

\* A slip: the answers are left in place.
ClearAnswersUpdate_Nothing == NoFields

\* route.ts 661-664
ClearAnswersUpdate == "answers_json" :> NONE

\* route.ts 690
needsExtraction(answers_json, override) == ~IsSome(answers_json) \/ override

\* ------------------------------------------------------------------------
\* Extraction orchestrator (extractAnswers.ts 360-474)
\* ------------------------------------------------------------------------

\* What one call of the extraction service (callOpenAI, extractAnswers.ts 211-304)
\* can produce: an exception with its message, or a parsed output, with or without
\* a reservation object.
ExtractionOutputs ==
  {[answers |-> <<>>, overall_notes |-> "", reservation |-> r] :
     r \in Opt({[status |-> "confirmed"]})}

\* The longest message the extraction service's client throws in the model.
MaxMessageLength == 1500

\* failure_details keeps this many characters of the message.
MaxDetailsLength == 1000

\* The messages of the exceptions callOpenAI can throw, each with its length:
\* the request is rejected with the service's error (277-286), the content is
\* empty (288-291), the content is not JSON (293).
ExtractionErrors ==
  {[message |-> "APIError", length |-> MaxMessageLength],
   [message |-> "OpenAI returned empty response", length |-> 30],
   [message |-> "SyntaxError: Unexpected token", length |-> 29]}

\* String.prototype.slice(0, n)
Slice(message, n) ==
  [message EXCEPT !.length = IF message.length > n THEN n ELSE message.length]

ExtractionOutcomes ==
  {[error |-> Some(e), output |-> NONE] : e \in ExtractionErrors}
  \cup {[error |-> NONE, output |-> Some(out)] : out \in ExtractionOutputs}

\* extractAnswers.ts 367-373: a non-empty turn list or a non-blank text
HasReadableTranscript(transcriptJson, transcriptText) ==
  \/ IsSome(transcriptJson) /\ Len(transcriptJson[1]) > 0
  \/ IsSome(transcriptText) /\ TrimNonEmpty(transcriptText[1])

\* extractAnswers.ts 375-382
TranscriptMissingUpdates ==
  ("is_extracting" :> FALSE) @@ ("failure_reason" :> Some("transcript_missing"))

\* A slip: the message is stored whole.
ExtractionFailedUpdates_NoSlice(message) ==
  ("is_extracting" :> FALSE)
  @@ ("failure_reason" :> Some("extraction_failed"))
  @@ ("failure_details" :> Some(message))

\* extractAnswers.ts 415-423
ExtractionFailedUpdates(message) ==
  ("is_extracting" :> FALSE)
  @@ ("failure_reason" :> Some("extraction_failed"))
  @@ ("failure_details" :> Some(Slice(message, MaxDetailsLength)))

\* extractAnswers.ts 429-438
AnswersUpsert(output) == "answers_json" :> Some(output)

\* A slip: the intent of the call is not looked at.
ExtractionDoneUpdates_AnyIntent(call_intent, output) ==
  ("is_extracting" :> FALSE)
  @@ (IF IsSome(output.reservation)
        THEN ("reservation_status" :> Some(output.reservation[1].status))
             @@ ("reservation_result_json" :> output.reservation)
        ELSE NoFields)

\* extractAnswers.ts 448-457
ExtractionDoneUpdates(call_intent, output) ==
  ("is_extracting" :> FALSE)
  @@ (IF call_intent = "make_reservation" /\ IsSome(output.reservation)
        THEN ("reservation_status" :> Some(output.reservation[1].status))
             @@ ("reservation_result_json" :> output.reservation)
        ELSE NoFields)

\* extractAnswers.ts 360-474, run to its end on the rows db = [call, artifact]
\* with the extraction service answering outcome.
extractAnswers(db, transcriptJson, transcriptText, outcome) ==
  IF ~HasReadableTranscript(transcriptJson, transcriptText)
    THEN [db EXCEPT !.call = ApplyUpdate(@, TranscriptMissingUpdates)]
  ELSE IF IsSome(outcome.error)
    THEN [db EXCEPT !.call = ApplyUpdate(@, ExtractionFailedUpdates(outcome.error[1]))]
  ELSE [call |-> ApplyUpdate(db.call,
                             ExtractionDoneUpdates(db.call.call_intent, outcome.output[1])),
        artifact |-> ApplyUpdate(db.artifact, AnswersUpsert(outcome.output[1]))]

\* ------------------------------------------------------------------------
\* The webhook handler, run to its end (route.ts 331-724)
\* ------------------------------------------------------------------------

\* The element of a one-element set; {F(x) : x \in {e}} computes e once for F.
Only(S) == CHOOSE x \in S : TRUE

\* A slip: the fallback the comment at route.ts 711-719 considers is switched on,
\* the extraction runs on call_ended too.
AfterWrites_AlsoOnCallEnded(written, p, row, noHuman, override, outcome) ==
  IF noHuman
    THEN [db |-> [written EXCEPT !.artifact = ApplyUpdate(@, ClearAnswersUpdate)],
          response |-> 204, extracted |-> FALSE]
  ELSE IF /\ p.event \in {"call_ended", "call_analyzed"}
          /\ hasTranscript(p)
          /\ needsExtraction(written.artifact.answers_json, override)
    THEN [db |-> extractAnswers(written, p.transcript_object, p.transcript, outcome),
          response |-> 204, extracted |-> TRUE]
  ELSE [db |-> written, response |-> 204, extracted |-> FALSE]

\* route.ts 610-723: the handler from its first write on. row is what it read at
\* its start, written the rows after its two writes (610-614, 641-643).
AfterWrites(written, p, row, noHuman, override, outcome) ==
  IF noHuman
    THEN [db |-> [written EXCEPT !.artifact = ApplyUpdate(@, ClearAnswersUpdate)],
          response |-> 204, extracted |-> FALSE]
  ELSE IF /\ p.event = "call_analyzed"
          /\ hasTranscript(p)
          /\ needsExtraction(written.artifact.answers_json, override)
    THEN [db |-> extractAnswers(written, p.transcript_object, p.transcript, outcome),
          response |-> 204, extracted |-> TRUE]
  ELSE [db |-> written, response |-> 204, extracted |-> FALSE]

\* route.ts 443-723: the handler after its read of the calls row and its
\* classification of the payload.
AfterRead(db, p, row, noHuman, outcome) ==
  IF isTerminal(row) /\ ~shouldAllowCallAnalyzedOverride(p.event, noHuman, row.status)
    THEN [db |-> db, response |-> 200, extracted |-> FALSE]
    ELSE Only({AfterWrites(written, p, row, noHuman,
                           shouldAllowCallAnalyzedOverride(p.event, noHuman, row.status),
                           outcome) :
                 written \in {[call |-> ApplyUpdate(db.call, callUpdates(p, row, noHuman)),
                               artifact |-> ApplyUpdate(db.artifact, artifactData(p))]}})

\* route.ts 399-724 for a matched call, on the rows db = [call, artifact] with the
\* extraction service answering outcome if it is called: the rows after the
\* handler has returned, the status code of its acknowledgment and whether it
\* called extractAnswers.
POST(db, p, outcome) ==
  Only({AfterRead(db, p, row, noHuman, outcome) :
          row \in {ReadCallRow(db.call)}, noHuman \in {noHumanReached(p)}})

\* ------------------------------------------------------------------------
\* State
\* ------------------------------------------------------------------------

VARIABLES
  call,      \* the calls row
  artifact,  \* the call_artifacts row
  created,   \* the rows as POST /api/calls created them (history)
  last,      \* what the latest delivery was and did (history)
  flips,     \* how often the status changed between completed and failed (history)
  req,       \* the handler executions in progress, one per concurrent request
  input,     \* the input of the function examined on its own
  verdict,   \* what the classifier made of its input
  reply      \* the latest request to the read API and its response

vars == <<call, artifact, created, last, flips, req, input, verdict, reply>>

DB == [call |-> call, artifact |-> artifact]

\* A call is settled when its status is terminal and it is not extracting.
Settled(c) == c.status \in {"completed", "failed"} /\ ~c.is_extracting

\* The history counter stops here.
MaxFlips == 2

\* A change of the status between completed and failed, in either direction.
IsFlip(old, new) ==
  \/ old = "completed" /\ new = "failed"
  \/ old = "failed" /\ new = "completed"

CountFlip(n, old, new) == IF IsFlip(old, new) /\ n < MaxFlips THEN n + 1 ELSE n

NoDelivery ==
  [event |-> "none", no_human |-> FALSE, has_transcript |-> FALSE,
   response |-> 0, extracted |-> FALSE]

\* The record of a delivery of p, classified noHuman and handled with result done.
DeliveryOf(p, noHuman, done) ==
  [event |-> p.event,
   no_human |-> noHuman,
   has_transcript |-> hasTranscript(p),
   response |-> done.response,
   extracted |-> done.extracted]

\* The concurrent requests of the interleaved specification.
Requests == {"r1", "r2"}

\* The body of a delivery: not JSON, JSON without call, JSON whose call has no
\* call_id, a call_id no calls row has, the call_id of the call of the model.
Bodies == {"not_json", "no_call", "no_call_id", "unmatched", "matched"}

\* A delivery as the handler meets it: whether a webhook key is configured
\* (route.ts 333-344), the x-retell-signature header with the verdict of
\* Retell.verify on it (350-361; without a key nothing is verified), the body.
Envelopes ==
  [key : {"configured"}, signature : {"missing", "invalid", "valid"}, body : Bodies]
  \cup [key : {"none"}, signature : {"missing", "present"}, body : Bodies]

\* The delivery the handler processes: verified, parsed, for the call of the model.
Accepted == [key |-> "configured", signature |-> "valid", body |-> "matched"]

\* A slip: the body is parsed before the signature is verified.
Gate_ParseFirst(e) ==
  IF e.key = "none" THEN [response |-> 500, parsed |-> FALSE, read |-> FALSE]
  ELSE IF e.body = "not_json" THEN [response |-> 400, parsed |-> TRUE, read |-> FALSE]
  ELSE IF e.signature # "valid" THEN [response |-> 401, parsed |-> TRUE, read |-> FALSE]
  ELSE IF e.body \in {"no_call", "no_call_id"}
    THEN [response |-> 200, parsed |-> TRUE, read |-> FALSE]
  ELSE IF e.body = "unmatched" THEN [response |-> 200, parsed |-> TRUE, read |-> TRUE]
  ELSE [response |-> 0, parsed |-> TRUE, read |-> TRUE]

\* A slip: a call_id that matches no call is answered as an error.
Gate_UnknownIsError(e) ==
  IF e.key = "none" THEN [response |-> 500, parsed |-> FALSE, read |-> FALSE]
  ELSE IF e.signature # "valid" THEN [response |-> 401, parsed |-> FALSE, read |-> FALSE]
  ELSE IF e.body = "not_json" THEN [response |-> 400, parsed |-> TRUE, read |-> FALSE]
  ELSE IF e.body \in {"no_call", "no_call_id"}
    THEN [response |-> 200, parsed |-> TRUE, read |-> FALSE]
  ELSE IF e.body = "unmatched" THEN [response |-> 404, parsed |-> TRUE, read |-> TRUE]
  ELSE [response |-> 0, parsed |-> TRUE, read |-> TRUE]

\* route.ts 331-413: the checks of the handler before it processes the event, in
\* their order. response is the status code returned, 0 when the handler goes
\* on; parsed: JSON.parse was called; read: the calls row was looked up.
Gate(e) ==
  IF e.key = "none" THEN [response |-> 500, parsed |-> FALSE, read |-> FALSE]
  ELSE IF e.signature = "missing" THEN [response |-> 401, parsed |-> FALSE, read |-> FALSE]
  ELSE IF e.signature # "valid" THEN [response |-> 401, parsed |-> FALSE, read |-> FALSE]
  ELSE IF e.body = "not_json" THEN [response |-> 400, parsed |-> TRUE, read |-> FALSE]
  ELSE IF e.body \in {"no_call", "no_call_id"}
    THEN [response |-> 200, parsed |-> TRUE, read |-> FALSE]
  ELSE IF e.body = "unmatched" THEN [response |-> 200, parsed |-> TRUE, read |-> TRUE]
  ELSE [response |-> 0, parsed |-> TRUE, read |-> TRUE]

\* A request that has not arrived yet.
\* invoked: extractAnswers has been called by this execution; response: the status
\* code of its acknowledgment, 0 before it; envelope: the delivery; parsed, read:
\* as in Gate; failed: a storage statement of this execution returned an error.
NotArrived ==
  [pc |-> "idle", payload |-> NONE, row |-> NONE, output |-> NONE, invoked |-> FALSE,
   response |-> 0, envelope |-> NONE, parsed |-> FALSE, read |-> FALSE,
   failed |-> FALSE]

NoVerdict ==
  [classified |-> FALSE, detected_voicemail |-> FALSE, dial_failure |-> FALSE,
   human_answered |-> FALSE, no_human |-> FALSE]

\* The rows after construction; no request has arrived.
InitRows ==
  /\ \E status \in {"queued", "calling"}, intent \in CallIntents :
       call = NewCall(status, intent)
  /\ artifact = NewArtifact
  /\ last = NoDelivery
  /\ flips = 0
  /\ req = [r \in Requests |-> NotArrived]

Init ==
  /\ InitRows
  /\ created = NONE
  /\ input = NONE
  /\ verdict = NoVerdict
  /\ reply = NONE

\* One webhook delivery for the call, handled from its first line to its
\* acknowledgment before the next one starts.
Deliver ==
  \E p \in Payloads :
    \E row \in {ReadCallRow(call)}, noHuman \in {noHumanReached(p)} :
      \E first \in {AfterRead(DB, p, row, noHuman, CHOOSE o \in ExtractionOutcomes : TRUE)} :
        \E done \in IF first.extracted
                      THEN {AfterRead(DB, p, row, noHuman, outcome) :
                              outcome \in ExtractionOutcomes}
                      ELSE {first} :
          /\ call' = done.db.call
          /\ artifact' = done.db.artifact
          /\ last' = DeliveryOf(p, noHuman, done)
          /\ flips' = CountFlip(flips, call.status, done.db.call.status)
          /\ UNCHANGED <<created, req, input, verdict, reply>>

Next == Deliver

Spec == Init /\ [][Next]_vars

\* ------------------------------------------------------------------------
\* Concurrent deliveries: the handler step by step, one step per storage
\* statement (each await of route.ts and extractAnswers.ts)
\* ------------------------------------------------------------------------

\* The payloads of the concurrent deliveries.
ConcPayloads ==
  PayloadsOver({"call_started", "call_ended", "call_analyzed"},
               Opt({TextDialog}),
               {NONE},
               Opt({<<"voicemail_reached">>}),
               {Some(2000)},
               {NONE},
               {NONE})

\* The steps between the call of extractAnswers and its return.
ExtractionSteps == {"extract", "openai", "answers", "finish"}

\* The handler moves on; at its end it returns 204 (route.ts 723).
Goto(r, pc) ==
  req' = [req EXCEPT ![r].pc = pc, ![r].response = IF pc = "done" THEN 204 ELSE @]

\* route.ts 331-467: the request arrives, the handler reads the calls row and
\* either acknowledges a duplicate or goes on to its writes.
Receive(r) ==
  /\ req[r].pc = "idle"
  /\ Gate(Accepted).response = 0
  /\ \E p \in ConcPayloads :
       \E row \in {ReadCallRow(call)} :
         \E skip \in {/\ isTerminal(row)
                       /\ ~shouldAllowCallAnalyzedOverride(
                             p.event, noHumanReached(p), row.status)} :
           req' = [req EXCEPT ![r] =
                     [pc |-> IF skip THEN "done" ELSE "update",
                      payload |-> Some(p), row |-> Some(row), output |-> NONE,
                      invoked |-> FALSE,
                      response |-> IF skip THEN 200 ELSE 0,
                      envelope |-> Some(Accepted),
                      parsed |-> Gate(Accepted).parsed,
                      read |-> Gate(Accepted).read,
                      failed |-> FALSE]]
  /\ UNCHANGED <<call, artifact, created, last, flips, input, verdict, reply>>

\* route.ts 610-614
UpdateCall(r) ==
  /\ req[r].pc = "update"
  /\ \E p \in {req[r].payload[1]}, row \in {req[r].row[1]} :
       call' = ApplyUpdate(call, callUpdates(p, row, noHumanReached(p)))
  /\ flips' = CountFlip(flips, call.status, call'.status)
  /\ Goto(r, "upsert")
  /\ UNCHANGED <<artifact, created, last, input, verdict, reply>>

\* route.ts 641-643, and the branch of 655-720 taken after it
UpsertArtifact(r) ==
  /\ req[r].pc = "upsert"
  /\ \E p \in {req[r].payload[1]} :
       /\ artifact' = ApplyUpdate(artifact, artifactData(p))
       /\ Goto(r, IF noHumanReached(p) THEN "clear"
                  ELSE IF p.event = "call_analyzed" /\ hasTranscript(p) THEN "check"
                  ELSE "done")
  /\ UNCHANGED <<call, created, last, flips, input, verdict, reply>>

\* route.ts 661-664
ClearAnswers(r) ==
  /\ req[r].pc = "clear"
  /\ artifact' = ApplyUpdate(artifact, ClearAnswersUpdate)
  /\ Goto(r, "done")
  /\ UNCHANGED <<call, created, last, flips, input, verdict, reply>>

\* route.ts 684-692
CheckAnswers(r) ==
  /\ req[r].pc = "check"
  /\ \E p \in {req[r].payload[1]}, row \in {req[r].row[1]} :
       Goto(r, IF needsExtraction(artifact.answers_json,
                                  shouldAllowCallAnalyzedOverride(
                                    p.event, noHumanReached(p), row.status))
                 THEN "extract" ELSE "done")
  /\ UNCHANGED <<call, artifact, created, last, flips, input, verdict, reply>>

\* route.ts 697-701 and extractAnswers.ts 367-399: extractAnswers is called,
\* checks the transcript and reads the call.
StartExtraction(r) ==
  /\ req[r].pc = "extract"
  /\ \E p \in {req[r].payload[1]} :
       IF HasReadableTranscript(p.transcript_object, p.transcript)
         THEN /\ req' = [req EXCEPT ![r].pc = "openai", ![r].invoked = TRUE]
              /\ UNCHANGED call
         ELSE /\ call' = ApplyUpdate(call, TranscriptMissingUpdates)
              /\ req' = [req EXCEPT ![r].pc = "done", ![r].invoked = TRUE,
                                    ![r].response = 204]
  /\ UNCHANGED <<artifact, created, last, flips, input, verdict, reply>>

\* extractAnswers.ts 401-426
CallOpenAI(r) ==
  /\ req[r].pc = "openai"
  /\ \E outcome \in ExtractionOutcomes :
       IF IsSome(outcome.error)
         THEN /\ call' = ApplyUpdate(call, ExtractionFailedUpdates(outcome.error[1]))
              /\ Goto(r, "done")
         ELSE /\ req' = [req EXCEPT ![r].pc = "answers", ![r].output = outcome.output]
              /\ UNCHANGED call
  /\ UNCHANGED <<artifact, created, last, flips, input, verdict, reply>>

\* extractAnswers.ts 428-438
UpsertAnswers(r) ==
  /\ req[r].pc = "answers"
  /\ artifact' = ApplyUpdate(artifact, AnswersUpsert(req[r].output[1]))
  /\ Goto(r, "finish")
  /\ UNCHANGED <<call, created, last, flips, input, verdict, reply>>

\* extractAnswers.ts 447-474
FinishExtraction(r) ==
  /\ req[r].pc = "finish"
  /\ call' = ApplyUpdate(call, ExtractionDoneUpdates(call.call_intent, req[r].output[1]))
  /\ Goto(r, "done")
  /\ UNCHANGED <<artifact, created, last, flips, input, verdict, reply>>

InitConc ==
  /\ InitRows
  /\ created = Some(DB)
  /\ input = NONE
  /\ verdict = NoVerdict
  /\ reply = NONE

\* The steps a handler in progress takes by itself, each the completion of a
\* storage statement. CallOpenAI is not among them: it is the completion of the
\* request to the extraction service (extractAnswers.ts 277-286), which the code
\* sends without a timeout and without an abort signal.
OwnStep(r) ==
  \/ UpdateCall(r)
  \/ UpsertArtifact(r)
  \/ ClearAnswers(r)
  \/ CheckAnswers(r)
  \/ StartExtraction(r)
  \/ UpsertAnswers(r)
  \/ FinishExtraction(r)

NextConc ==
  \E r \in Requests :
    \/ Receive(r)
    \/ UpdateCall(r)
    \/ UpsertArtifact(r)
    \/ ClearAnswers(r)
    \/ CheckAnswers(r)
    \/ StartExtraction(r)
    \/ CallOpenAI(r)
    \/ UpsertAnswers(r)
    \/ FinishExtraction(r)

\* Each of the requests delivers one event; their steps interleave freely.
SpecConc == InitConc /\ [][NextConc]_vars

\* ------------------------------------------------------------------------
\* One handler at a time, step by step, with storage statements that can fail
\* (each supabase call returns an error object the code logs and passes over)
\* ------------------------------------------------------------------------

\* The handler moves on after a storage statement returned an error.
GotoFailed(r, pc) ==
  req' = [req EXCEPT ![r].pc = pc, ![r].failed = TRUE,
                     ![r].response = IF pc = "done" THEN 204 ELSE @]

\* A request arrives when no other handler is in progress.
ReceiveAlone(r) ==
  /\ \A q \in Requests \ {r} : req[q].pc \in {"idle", "done"}
  /\ Receive(r)

\* A slip: the handler gives up with a server error when the update fails.
UpdateCallFails_Aborts(r) ==
  /\ req[r].pc = "update"
  /\ req' = [req EXCEPT ![r].pc = "done", ![r].failed = TRUE, ![r].response = 500]
  /\ UNCHANGED <<call, artifact, created, last, flips, input, verdict, reply>>

\* route.ts 611-622: the update of calls fails; the error is logged.
UpdateCallFails(r) ==
  /\ req[r].pc = "update"
  /\ GotoFailed(r, "upsert")
  /\ UNCHANGED <<call, artifact, created, last, flips, input, verdict, reply>>

\* route.ts 641-650: the upsert of call_artifacts fails; the error is logged.
UpsertArtifactFails(r) ==
  /\ req[r].pc = "upsert"
  /\ \E p \in {req[r].payload[1]} :
       GotoFailed(r, IF noHumanReached(p) THEN "clear"
                     ELSE IF p.event = "call_analyzed" /\ hasTranscript(p) THEN "check"
                     ELSE "done")
  /\ UNCHANGED <<call, artifact, created, last, flips, input, verdict, reply>>

\* route.ts 661-670: the clearing of answers_json fails; the error is logged.
ClearAnswersFails(r) ==
  /\ req[r].pc = "clear"
  /\ GotoFailed(r, "done")
  /\ UNCHANGED <<call, artifact, created, last, flips, input, verdict, reply>>

\* extractAnswers.ts 388-399: the call cannot be read; extractAnswers returns
\* call_not_found.
FetchCallFails(r) ==
  /\ req[r].pc = "extract"
  /\ \E p \in {req[r].payload[1]} :
       HasReadableTranscript(p.transcript_object, p.transcript)
  /\ req' = [req EXCEPT ![r].pc = "done", ![r].invoked = TRUE, ![r].response = 204,
                        ![r].failed = TRUE]
  /\ UNCHANGED <<call, artifact, created, last, flips, input, verdict, reply>>

\* extractAnswers.ts 429-445: the upsert of answers_json fails; the error is logged.
UpsertAnswersFails(r) ==
  /\ req[r].pc = "answers"
  /\ GotoFailed(r, "finish")
  /\ UNCHANGED <<call, artifact, created, last, flips, input, verdict, reply>>

\* extractAnswers.ts 460-474: the final update of calls fails; the error is logged.
FinishExtractionFails(r) ==
  /\ req[r].pc = "finish"
  /\ GotoFailed(r, "done")
  /\ UNCHANGED <<call, artifact, created, last, flips, input, verdict, reply>>

NextSteps ==
  \E r \in Requests :
    \/ ReceiveAlone(r)
    \/ UpdateCall(r)
    \/ UpdateCallFails(r)
    \/ UpsertArtifact(r)
    \/ UpsertArtifactFails(r)
    \/ ClearAnswers(r)
    \/ ClearAnswersFails(r)
    \/ CheckAnswers(r)
    \/ StartExtraction(r)
    \/ FetchCallFails(r)
    \/ CallOpenAI(r)
    \/ UpsertAnswers(r)
    \/ UpsertAnswersFails(r)
    \/ FinishExtraction(r)
    \/ FinishExtractionFails(r)

\* The requests are handled one after the other.
SpecSteps == InitConc /\ [][NextSteps]_vars

\* ------------------------------------------------------------------------
\* Every delivery, also those the handler answers before it processes an event
\* ------------------------------------------------------------------------

\* route.ts 331-413: a delivery the handler answers at one of its first checks.
Reject(r) ==
  /\ req[r].pc = "idle"
  /\ \E e \in Envelopes :
       \E g \in {Gate(e)} :
         /\ g.response # 0
         /\ req' = [req EXCEPT ![r] =
                      [NotArrived EXCEPT !.pc = "done", !.envelope = Some(e),
                                         !.response = g.response,
                                         !.parsed = g.parsed, !.read = g.read]]
  /\ UNCHANGED <<call, artifact, created, last, flips, input, verdict, reply>>

NextGate ==
  \E r \in Requests :
    \/ Reject(r)
    \/ ReceiveAlone(r)
    \/ UpdateCall(r)
    \/ UpsertArtifact(r)
    \/ ClearAnswers(r)
    \/ CheckAnswers(r)
    \/ StartExtraction(r)
    \/ CallOpenAI(r)
    \/ UpsertAnswers(r)
    \/ FinishExtraction(r)

\* Deliveries of every kind, handled one after the other.
SpecGate == InitConc /\ [][NextGate]_vars

\* ------------------------------------------------------------------------
\* The classifier on its own
\* ------------------------------------------------------------------------

InitClassify ==
  /\ call = NewCall("calling", "make_reservation")
  /\ artifact = NewArtifact
  /\ created = NONE
  /\ last = NoDelivery
  /\ flips = 0
  /\ req = [r \in Requests |-> NotArrived]
  /\ input \in {Some(p) : p \in ClassifierPayloads}
  /\ verdict = NoVerdict
  /\ reply = NONE

\* route.ts 421-441
Classify ==
  /\ ~verdict.classified
  /\ \E p \in {input[1]} :
       verdict' =
         [classified |-> TRUE,
          detected_voicemail |-> detectVoicemailFromAnalysis(p.in_voicemail, p.transcript),
          dial_failure |-> isDialFailureDisconnection(p.disconnection_reason),
          human_answered |-> detectHumanAnswered(p.transcript, p.transcript_object, p.duration_ms),
          no_human |-> noHumanReached(p)]
  /\ UNCHANGED <<call, artifact, created, last, flips, req, input, reply>>

NextClassify == Classify

SpecClassify == InitClassify /\ [][NextClassify]_vars

\* ------------------------------------------------------------------------
\* Datetime normalization of the extraction output (extractAnswers.ts 120-174,
\* 315-341)
\* ------------------------------------------------------------------------

\* Minutes in a day.
DayMinutes == 24 * 60

\* A datetime string "YYYY-MM-DDTHH:mm[:ss][suffix]": day counts the days from
\* 2026-01-26, minute is HH * 60 + mm (an hour above 23 is no time of day),
\* seconds tells whether ":ss" is there (ss is 00), suffix is the zone marker.
DatetimeStrings ==
  [day : {0, 1}, minute : {0, 1170, 1500}, seconds : BOOLEAN,
   suffix : {"", "Z", "-05:00", "+05:30"}]

\* The offset a zone suffix denotes, in minutes.
SuffixMinutes(suffix) ==
  CASE suffix = "Z" -> 0
    [] suffix = "-05:00" -> 0 - 300
    [] suffix = "+05:30" -> 330

\* The IANA zones of the model and their offsets from UTC at the days of the
\* model, in minutes.
IANA == {"America/Toronto", "Asia/Kolkata"}

OffsetMinutes(timezone) ==
  CASE timezone = "America/Toronto" -> 0 - 300
    [] timezone = "Asia/Kolkata" -> 330

\* What a timezone field can hold: a zone, or a text that names none.
TimezoneTexts == IANA \cup {"Eastern Time"}

\* new Date(datetimeStr).getTime(): the instant in minutes from
\* 2026-01-26T00:00Z; NONE is NaN.
ParseDate(d) ==
  IF d.minute >= DayMinutes THEN NONE
  ELSE Some(d.day * DayMinutes + d.minute - SuffixMinutes(d.suffix))

\* toZonedTime(date, timezone): the wall clock of the instant in the zone, as
\* minutes from 2026-01-26T00:00 of that wall clock.
toZonedTime(instant, timezone) == instant + OffsetMinutes(timezone)

\* formatDate(zonedDate, "yyyy-MM-dd'T'HH:mm:ss")
formatDate(zoned) ==
  [day |-> zoned \div DayMinutes, minute |-> zoned % DayMinutes, seconds |-> TRUE,
   suffix |-> ""]

\* extractAnswers.ts 120-174; toZonedTime of a text that names no zone gives an
\* invalid date, formatDate throws on it and the catch returns the input.
normalizeDatetimeToLocalIso(datetimeStr, timezone) ==
  IF datetimeStr = NONE \/ timezone = NONE THEN datetimeStr
  ELSE IF datetimeStr[1].suffix = ""
    THEN Some([datetimeStr[1] EXCEPT !.seconds = TRUE])
  ELSE IF ParseDate(datetimeStr[1]) = NONE THEN NONE
  ELSE IF timezone[1] \notin IANA THEN datetimeStr
  ELSE Some(formatDate(toZonedTime(ParseDate(datetimeStr[1])[1], timezone[1])))

\* a || b on optional texts
OrElse(a, b) == IF IsSome(a) THEN a ELSE b

\* extractAnswers.ts 315-341
normalizeExtractionOutput(extractedData, callData) ==
  IF extractedData.reservation = NONE THEN extractedData
  ELSE LET reservation == extractedData.reservation[1]
           timezone == OrElse(reservation.timezone, callData.reservation_timezone)
       IN  [extractedData EXCEPT !.reservation =
              Some([confirmed_datetime_local_iso |->
                      normalizeDatetimeToLocalIso(reservation.confirmed_datetime_local_iso,
                                                  timezone),
                    timezone |-> timezone])]

\* The extraction outputs and the calls the normalization is examined on.
NormalizeInputs ==
  [extractedData :
     [reservation :
        Opt([confirmed_datetime_local_iso : Opt(DatetimeStrings),
             timezone : Opt(TimezoneTexts)])],
   callData : [reservation_timezone : Opt(IANA)]]

InitNormalize ==
  /\ call = NewCall("calling", "make_reservation")
  /\ artifact = NewArtifact
  /\ created = NONE
  /\ last = NoDelivery
  /\ flips = 0
  /\ req = [r \in Requests |-> NotArrived]
  /\ input \in {Some(i) : i \in NormalizeInputs}
  /\ verdict = NoVerdict
  /\ reply = NONE

\* extractAnswers.ts 408, 428-436: the output is normalized and upserted as
\* answers_json.
Normalize ==
  /\ artifact.answers_json = NONE
  /\ artifact' =
       [artifact EXCEPT !.answers_json =
          Some(normalizeExtractionOutput(input[1].extractedData, input[1].callData))]
  /\ UNCHANGED <<call, created, last, flips, req, input, verdict, reply>>

NextNormalize == Normalize

SpecNormalize == InitNormalize /\ [][NextNormalize]_vars

\* ------------------------------------------------------------------------
\* The read API, GET /api/calls/:id (calls/[id]/route.ts 9-88)
\* ------------------------------------------------------------------------

\* The values of the session_id cookie.
Sessions == {"s1", "s2"}

\* calls route 527: the session_id of the call of the model, the session that
\* created it.
SessionOfCall == "s1"

\* The :id of a request: the id of the call of the model, a UUID no row has, a
\* text that is no UUID.
CallIds == {"call", "other", "not_uuid"}

GetRequests == [cookie : Opt(Sessions), id : CallIds]

\* An error response.
ErrorResponse(status, error) == [status |-> status, error |-> Some(error), body |-> NONE]

\* A slip: the select does not filter by session_id.
GET_NoOwnership(db, q) ==
  IF q.cookie = NONE THEN ErrorResponse(400, "Missing session_id cookie. Please refresh the page.")
  ELSE IF q.id = "not_uuid" THEN ErrorResponse(400, "Invalid call ID format.")
  ELSE IF q.id # "call" THEN ErrorResponse(404, "Call not found.")
  ELSE [status |-> 200,
        error |-> NONE,
        body |-> Some([status |-> db.call.status,
                       artifacts |-> [answers_json |-> db.artifact.answers_json]])]

\* calls/[id]/route.ts 9-88; of the columns that never change after the insert
\* only call_intent is modelled.
GET(db, q) ==
  IF q.cookie = NONE THEN ErrorResponse(400, "Missing session_id cookie. Please refresh the page.")
  ELSE IF q.id = "not_uuid" THEN ErrorResponse(400, "Invalid call ID format.")
  ELSE IF ~(q.id = "call" /\ q.cookie[1] = SessionOfCall)
    THEN ErrorResponse(404, "Call not found.")
  ELSE [status |-> 200,
        error |-> NONE,
        body |-> Some([call_intent |-> db.call.call_intent,
                       reservation_status |-> db.call.reservation_status,
                       reservation_result_json |-> db.call.reservation_result_json,
                       status |-> db.call.status,
                       is_extracting |-> db.call.is_extracting,
                       failure_reason |-> db.call.failure_reason,
                       failure_details |-> db.call.failure_details,
                       artifacts |->
                         [answers_json |-> db.artifact.answers_json,
                          transcript_text |-> db.artifact.transcript_text,
                          transcript_json |-> db.artifact.transcript_json]])]

\* One GET /api/calls/:id, answered from the rows as they are.
Get ==
  /\ \E q \in GetRequests :
       reply' = Some([request |-> q, response |-> GET(DB, q)])
  /\ UNCHANGED <<call, artifact, created, last, flips, req, input, verdict>>

NextRead ==
  \/ Get
  \/ \E r \in Requests :
       \/ ReceiveAlone(r)
       \/ UpdateCall(r)
       \/ UpsertArtifact(r)
       \/ ClearAnswers(r)
       \/ CheckAnswers(r)
       \/ StartExtraction(r)
       \/ CallOpenAI(r)
       \/ UpsertAnswers(r)
       \/ FinishExtraction(r)

\* Webhook deliveries handled one after the other, and reads at any moment.
SpecRead == InitConc /\ [][NextRead]_vars

\* ------------------------------------------------------------------------
\* Deliveries that carry call_analysis.call_successful
\* ------------------------------------------------------------------------

\* The payloads of these deliveries.
AnalysisPayloads ==
  PayloadsOver({"call_started", "call_ended", "call_analyzed"},
               Opt({TextDialog}),
               {NONE},
               Opt({<<"voicemail_reached">>}),
               {Some(2000)},
               {NONE},
               Opt(BOOLEAN))

\* One delivery, handled from its first line to its acknowledgment.
DeliverAnalysis ==
  \E p \in AnalysisPayloads :
    \E first \in {POST(DB, p, CHOOSE o \in ExtractionOutcomes : TRUE)} :
      \E done \in IF first.extracted
                    THEN {POST(DB, p, outcome) : outcome \in ExtractionOutcomes}
                    ELSE {first} :
        /\ call' = done.db.call
        /\ artifact' = done.db.artifact
        /\ last' = DeliveryOf(p, noHumanReached(p), done)
        /\ flips' = CountFlip(flips, call.status, done.db.call.status)
        /\ UNCHANGED <<created, req, input, verdict, reply>>

NextAnalysis == DeliverAnalysis

SpecAnalysis == Init /\ [][NextAnalysis]_vars

\* ------------------------------------------------------------------------
\* Concurrent deliveries whose extractions can return different reservations
\* ------------------------------------------------------------------------

\* An output of the extraction service that reports the reservation as refused.
DeclinedOutput ==
  [answers |-> <<>>, overall_notes |-> "", reservation |-> Some([status |-> "failed"])]

\* extractAnswers.ts 401-408: the extraction service returns DeclinedOutput.
CallOpenAIDeclined(r) ==
  /\ req[r].pc = "openai"
  /\ req' = [req EXCEPT ![r].pc = "answers", ![r].output = Some(DeclinedOutput)]
  /\ UNCHANGED <<call, artifact, created, last, flips, input, verdict, reply>>

NextOverlap ==
  \/ NextConc
  \/ \E r \in Requests : CallOpenAIDeclined(r)

SpecOverlap == InitConc /\ [][NextOverlap]_vars

\* ------------------------------------------------------------------------
\* Properties
\* ------------------------------------------------------------------------

\* The order of the non-failed statuses.
ForwardOrder == <<"queued", "calling", "connected", "completed">>

\* new is strictly later than old in ForwardOrder.
ForwardStep(old, new) ==
  \E i, j \in 1..Len(ForwardOrder) :
    i < j /\ ForwardOrder[i] = old /\ ForwardOrder[j] = new

\* The payload of the latest delivery that was not skipped as a duplicate.
Stored(a) == a.raw_provider_payload_json[1]

C2_Serializable ==
  (\A r \in Requests : req[r].pc = "done") =>
    \E a \in Requests, o1 \in ExtractionOutcomes, o2 \in ExtractionOutcomes :
      \E b \in Requests \ {a} :
        call = POST(POST(created[1], req[a].payload[1], o1).db,
                    req[b].payload[1], o2).db.call

\* C3. Settled no-op: a delivery to a settled call that is not a corrective
\* call_analyzed (one whose classification contradicts the status) changes no
\* column of the call and of its artifact and does not call the extraction.
C3_SettledNoOp ==
  [][(/\ Settled(call)
      /\ ~(/\ last'.event = "call_analyzed"
           /\ \/ last'.no_human /\ call.status = "completed"
              \/ ~last'.no_human /\ call.status = "failed"))
     => (call' = call /\ artifact' = artifact /\ ~last'.extracted)]_vars

\* C3 witness: a delivery to a settled call was acknowledged as a duplicate.
C3_Witness == Settled(call) /\ last.response = 200 /\ IsSome(artifact.answers_json)

\* C4. Idempotence: in every reachable state, handling an identical call_ended or
\* call_analyzed event a second time leaves the rows as the first handling left
\* them (by induction, so does every further time).
C4_Idempotent ==
  \A p \in Payloads :
    p.event \in {"call_ended", "call_analyzed"} =>
      \A o1 \in ExtractionOutcomes, o2 \in ExtractionOutcomes :
        \E once \in {POST(DB, p, o1).db} : POST(once, p, o2).db = once

\* C5. At most one extraction is in flight for the call: a delivery that arrives
\* while another request is between the call of extractAnswers and its return
\* does not start a second one.
C5_SingleExtraction ==
  Cardinality({r \in Requests : req[r].pc \in ExtractionSteps}) <= 1

\* C6. Corrective flip to completed: a human-reached call_analyzed delivered to a
\* settled failed call makes the status completed, and runs the extraction if it
\* carries a transcript.
C6_FlipToCompleted ==
  [][(/\ Settled(call)
      /\ call.status = "failed"
      /\ last'.event = "call_analyzed"
      /\ ~last'.no_human)
     => (/\ call'.status = "completed"
         /\ last'.has_transcript => last'.extracted)]_vars

\* C7. Corrective flip to failed: a no-human call_analyzed delivered to a settled
\* completed call leaves status failed, is_extracting false and answers_json null.
C7_FlipToFailed ==
  [][(/\ Settled(call)
      /\ call.status = "completed"
      /\ last'.event = "call_analyzed"
      /\ last'.no_human)
     => (/\ call'.status = "failed"
         /\ ~call'.is_extracting
         /\ artifact'.answers_json = NONE)]_vars

\* C7 witness: a call_analyzed classified no-human has turned a completed call
\* into a failed one.
C7_Witness ==
  /\ flips = 1
  /\ call.status = "failed"
  /\ last.event = "call_analyzed"
  /\ last.no_human
  /\ last.response = 204

StrongHumanEvidence(p) ==
  \/ IsSome(p.duration_ms) /\ p.duration_ms[1] > 5000
  \/ /\ IsSome(p.transcript)
     /\ IncludesLower(p.transcript[1], "agent:")
     /\ IncludesLower(p.transcript[1], "user:")
     /\ TextLength(p.transcript[1]) > 50
  \/ /\ IsSome(p.transcript_object)
     /\ Cardinality({i \in 1..Len(p.transcript_object[1]) :
                       p.transcript_object[1][i].content \notin {"", " "}}) > 1

\* The events of the voicemail claim.
VoicemailCase(p) ==
  /\ p.duration_ms = Some(2000)
  /\ p.disconnection_reason = Some(<<"voicemail_reached">>)
  /\ ~StrongHumanEvidence(p)

\* C9. Voicemail classification: every payload with duration_ms = 2000,
\* disconnection_reason = "voicemail_reached" and no strong human evidence is
\* classified no-human, and a call_ended or call_analyzed with such a payload,
\* delivered to a call that is not settled, leaves status failed and is_extracting
\* false and does not call the extraction.
C9_Voicemail ==
  /\ \A p \in ClassifierPayloads : VoicemailCase(p) => noHumanReached(p)
  /\ [][(/\ ~Settled(call)
         /\ last'.event \in {"call_ended", "call_analyzed"}
         /\ VoicemailCase(Stored(artifact')))
        => (/\ last'.no_human
            /\ call'.status = "failed"
            /\ ~call'.is_extracting
            /\ ~last'.extracted)]_vars

\* C9 witness: such an event has been handled on a call that was not settled.
C9_Witness ==
  /\ last.event \in {"call_ended", "call_analyzed"}
  /\ last.response = 204
  /\ flips = 0
  /\ VoicemailCase(Stored(artifact))
  /\ call.status = "failed"

C11_ReservationRepair ==
  [][(/\ last'.event # "none"
      /\ last'.no_human
      /\ call.call_intent = "make_reservation"
      /\ call.reservation_status = Some("requested"))
     => (/\ call'.reservation_status = Some("needs_followup")
         /\ IsSome(call'.reservation_result_json))]_vars

\* C12. No make_reservation call that is settled after a call_ended or
\* call_analyzed was handled has reservation_status "requested".
C12_NeverStuckRequested ==
  (/\ call.call_intent = "make_reservation"
   /\ Settled(call)
   /\ last.event \in {"call_ended", "call_analyzed"})
  => call.reservation_status # Some("requested")

\* C13. Questions-only isolation: reservation_status and reservation_result of a
\* questions_only call keep the null they were created with, whatever was
\* delivered and whatever the extraction returned.
C13_QuestionsOnlyIsolation ==
  call.call_intent = "questions_only" =>
    (call.reservation_status = NONE /\ call.reservation_result_json = NONE)

\* C13 witness: the extraction of a questions_only call returned a reservation
\* object, which was stored with the answers.
C13_Witness ==
  /\ call.call_intent = "questions_only"
  /\ last.extracted
  /\ IsSome(artifact.answers_json)
  /\ IsSome(artifact.answers_json[1].reservation)

\* C14. Extraction re-entrancy: in every reachable state, when the same
\* human-reached call_analyzed with a transcript is handled twice in a row, the
\* second handling does not call the extraction and leaves the stored answers as
\* the first handling left them.
C14_ReEntrant ==
  \A p \in Payloads :
    (p.event = "call_analyzed" /\ ~noHumanReached(p) /\ hasTranscript(p)) =>
      \A o1 \in ExtractionOutcomes, o2 \in ExtractionOutcomes :
        \E first \in {POST(DB, p, o1)} :
          \E second \in {POST(first.db, p, o2)} :
            /\ ~second.extracted
            /\ second.db.artifact.answers_json = first.db.artifact.answers_json

\* C15. Whenever a handler is inside the extraction it invoked, is_extracting =
\* true is in the calls row: it was written before the invocation started.
C15_MarkedBeforeExtraction ==
  \A r \in Requests :
    req[r].pc \in {"extract", "openai"} => call.is_extracting

\* C16. When a handler that invoked the extraction returns its acknowledgment,
\* is_extracting is false and either answers_json is written or a failure reason
\* of the extraction is recorded.
C16_AckAfterExtraction ==
  [][\A r \in Requests :
       (req[r].pc # "done" /\ req'[r].pc = "done" /\ req'[r].invoked)
       => (/\ ~call'.is_extracting
           /\ \/ IsSome(artifact'.answers_json)
              \/ call'.failure_reason \in {Some("extraction_failed"),
                                           Some("transcript_missing")})]_vars

\* C17. Extraction never hangs: a handler in progress can always take a step by
\* itself, so an extraction whose service never responds still ends (by a
\* timeout that resolves the call as an extraction failure).
C17_NeverHangs ==
  \A r \in Requests :
    req[r].pc \notin {"idle", "done"} => ENABLED OwnStep(r)

C19_CallAnalyzedExtracts ==
  [][(/\ artifact.answers_json = NONE
      /\ last'.event = "call_analyzed"
      /\ ~last'.no_human
      /\ last'.has_transcript)
     => last'.extracted]_vars

C21_ExtractionFailure ==
  [][\A r \in Requests :
       (req[r].pc = "openai" /\ req'[r].pc = "done")
       => (/\ call'.status = call.status
           /\ ~call'.is_extracting
           /\ call'.failure_reason = Some("extraction_failed")
           /\ IsSome(call'.failure_details)
           /\ call'.failure_details[1].message \in
                {e.message : e \in ExtractionErrors}
           /\ call'.failure_details[1].length <= MaxDetailsLength
           /\ artifact' = artifact
           /\ req'[r].response = 204)]_vars

\* C21 witness: a handler has returned after the service's call threw a message
\* longer than failure_details keeps.
C21_Witness ==
  \E r \in Requests :
    /\ req[r].pc = "done"
    /\ req[r].invoked
    /\ req[r].response = 204
    /\ call.failure_reason = Some("extraction_failed")
    /\ call.failure_details = Some([message |-> "APIError", length |-> MaxDetailsLength])
    /\ artifact.answers_json = NONE

\* The handler r answers the delivery e at one of its first checks.
Answers(r, e) ==
  /\ req[r].pc = "idle"
  /\ req'[r].pc = "done"
  /\ req'[r].envelope = Some(e)

AfterStatement(pc, p) ==
  IF pc = "update" THEN "upsert"
  ELSE IF pc = "upsert"
    THEN (IF noHumanReached(p) THEN "clear"
          ELSE IF p.event = "call_analyzed" /\ hasTranscript(p) THEN "check"
          ELSE "done")
  ELSE "done"

\* C24. StorageFailure: when the calls update, the call_artifacts upsert or the
\* answers clear returns an error while a matched event is processed, the handler
\* goes on to the statement that follows, and a handler in which a statement
\* failed returns 204 and nothing else.
C24_StorageFailure ==
  /\ [](\A r \in Requests :
          req[r].failed => (/\ req[r].response \in {0, 204}
                            /\ req[r].pc = "done" <=> req[r].response = 204))
  /\ [][\A r \in Requests :
          (/\ req[r].pc \in {"update", "upsert", "clear"}
           /\ ~req[r].failed
           /\ req'[r].failed)
          => req'[r].pc = AfterStatement(req[r].pc, req[r].payload[1])]_vars

\* C24 witness: a handler whose calls update failed went on, ran the extraction
\* and returned 204.
C24_Witness ==
  \E r \in Requests :
    /\ req[r].failed
    /\ req[r].invoked
    /\ req[r].pc = "done"
    /\ req[r].response = 204
    /\ call.status = created[1].call.status
    /\ IsSome(artifact.answers_json)

\* C25. Every delivery is answered with one of the four outcomes: 401, 400, 200
\* (no-op) or 204 (processed); none is answered with a server error.
C25_FourOutcomes ==
  \A r \in Requests :
    req[r].pc = "done" => req[r].response \in {401, 400, 200, 204}

\* C26. Processing a call_connected event in which a human was reached, on a
\* call whose status is queued or calling, sets the status to connected.
C26_ConnectedEvent ==
  [][(/\ last'.event = "call_connected"
      /\ ~last'.no_human
      /\ last'.response = 204
      /\ call.status \in {"queued", "calling"})
     => call'.status = "connected"]_vars

\* C27. Voicemail-phrase matching is a fallback only: for an event in which
\* call_analysis.in_voicemail is present or a disconnection reason is present,
\* noHumanReached is what the flag, the reason and the human evidence give,
\* whether or not the transcript contains a voicemail phrase.
C27_PhraseFallbackOnly ==
  (/\ verdict.classified
   /\ IsSome(input[1].in_voicemail) \/ IsSome(input[1].disconnection_reason))
  => (verdict.no_human
        <=> (/\ input[1].in_voicemail = Some(TRUE) \/ verdict.dial_failure
             /\ ~verdict.human_answered))

\* The persisted reservation of an extraction whose confirmed timestamp d
\* carries a zone suffix and denotes an instant, for a call with a timezone.
Converted(d) ==
  /\ IsSome(artifact.answers_json)
  /\ IsSome(input[1].extractedData.reservation)
  /\ input[1].extractedData.reservation[1].confirmed_datetime_local_iso = Some(d)
  /\ d.suffix # ""
  /\ IsSome(ParseDate(d))
  /\ IsSome(input[1].callData.reservation_timezone)

\* s is the zone-less YYYY-MM-DDTHH:mm:ss wall clock, in the zone, of the
\* instant d denotes.
IsWallClockOf(s, d, timezone) ==
  /\ s.suffix = ""
  /\ s.seconds
  /\ s.minute \in 0..(DayMinutes - 1)
  /\ s.day * DayMinutes + s.minute - OffsetMinutes(timezone)
       = d.day * DayMinutes + d.minute - SuffixMinutes(d.suffix)

\* C28. Datetime normalization: for every extraction output whose confirmed
\* timestamp carries a zone suffix, the persisted confirmed_datetime_local_iso is
\* the local wall-clock time of that instant in the call's timezone, in the form
\* YYYY-MM-DDTHH:mm:ss, and does not end with a zone marker.
C28_DatetimeNormalization ==
  \A d \in DatetimeStrings :
    Converted(d)
    => LET persisted ==
             artifact.answers_json[1].reservation[1].confirmed_datetime_local_iso
       IN  /\ IsSome(persisted)
           /\ persisted[1].suffix = ""
           /\ IsWallClockOf(persisted[1], d, input[1].callData.reservation_timezone[1])

\* C29. When the confirmed timestamp carries a zone suffix and the extraction
\* output names a timezone other than the one stored on the call's reservation
\* request, the conversion still uses the request's timezone.
C29_RequestTimezone ==
  \A d \in DatetimeStrings :
    (/\ Converted(d)
     /\ IsSome(input[1].extractedData.reservation[1].timezone)
     /\ input[1].extractedData.reservation[1].timezone
          # input[1].callData.reservation_timezone)
    => \E s \in {artifact.answers_json[1].reservation[1].confirmed_datetime_local_iso} :
         /\ IsSome(s)
         /\ IsWallClockOf(s[1], d, input[1].callData.reservation_timezone[1])

\* C30. Session isolation of the read API: GET /api/calls/:id returns the call's
\* status and artifacts only when the session_id cookie is the session of the
\* call; for a call of another session the response is the one given for an id
\* no call has, 404 "Call not found."; and no response carries
\* raw_provider_payload_json.
C30_SessionIsolation ==
  [][reply' # reply
     => LET q == reply'[1].request
            response == reply'[1].response
        IN  /\ IsSome(response.body)
               => (/\ q.id = "call"
                   /\ q.cookie = Some(SessionOfCall)
                   /\ response.body[1].status = call.status
                   /\ response.body[1].artifacts.answers_json = artifact.answers_json)
            /\ (q.id = "call" /\ IsSome(q.cookie) /\ q.cookie # Some(SessionOfCall))
               => (/\ response = ErrorResponse(404, "Call not found.")
                   /\ response = GET(DB, [q EXCEPT !.id = "other"]))
            /\ IsSome(response.body)
               => (/\ "raw_provider_payload_json" \notin DOMAIN response.body[1]
                   /\ "raw_provider_payload_json"
                        \notin DOMAIN response.body[1].artifacts)]_vars

\* C30 witness: after a webhook stored its raw payload, the call was asked for
\* with the cookie of another session and the answer was 404.
C30_Witness ==
  /\ IsSome(artifact.raw_provider_payload_json)
  /\ IsSome(reply)
  /\ reply[1].request = [cookie |-> Some("s2"), id |-> "call"]
  /\ reply[1].response.status = 404

\* C31. call_successful does not decide failed versus completed: from the same
\* rows, an event without call_analysis.call_successful and the same event with
\* call_successful true or false give the same status, is_extracting,
\* reservation_status, the same decision whether extractAnswers is called and
\* the same acknowledgment.
C31_CallSuccessfulIgnored ==
  \A p \in {q \in AnalysisPayloads : q.call_successful = NONE} :
    \E first \in {POST(DB, p, CHOOSE o \in ExtractionOutcomes : TRUE)} :
      \A outcome \in IF first.extracted THEN ExtractionOutcomes
                      ELSE {CHOOSE o \in ExtractionOutcomes : TRUE} :
        \E one \in {POST(DB, p, outcome)} :
          \A s \in BOOLEAN :
            \E other \in {POST(DB, [p EXCEPT !.call_successful = Some(s)], outcome)} :
              /\ other.db.call.status = one.db.call.status
              /\ other.db.call.is_extracting = one.db.call.is_extracting
              /\ other.db.call.reservation_status = one.db.call.reservation_status
              /\ other.extracted = one.extracted
              /\ other.response = one.response

\* C31 witness: a call_analyzed event whose call_successful is false was
\* processed as human-reached: the call is completed and the extraction ran.
C31_Witness ==
  /\ IsSome(artifact.raw_provider_payload_json)
  /\ artifact.raw_provider_payload_json[1].call_successful = Some(FALSE)
  /\ last.event = "call_analyzed"
  /\ last.extracted
  /\ call.status = "completed"
  /\ IsSome(artifact.answers_json)

\* C32. Every return path of extractAnswers (success, transcript missing, call
\* not readable, error of the extraction service) leaves is_extracting = false
\* in the calls row.
C32_ReturnsClearFlag ==
  [][\A r \in Requests :
       (req[r].pc \in ExtractionSteps /\ req'[r].pc = "done")
       => ~call'.is_extracting]_vars

\* C33. Only call_ended and call_analyzed can produce a terminal status:
\* processing a call_started or an unrecognized event, whatever its payload
\* carries, does not change the status to completed or failed and changes
\* neither is_extracting nor reservation_status nor answers_json.
C33_OnlyEndEventsTerminate ==
  [][last'.event \notin {"call_ended", "call_analyzed"}
     => (/\ call'.status \in {"completed", "failed"} => call'.status = call.status
         /\ call'.is_extracting = call.is_extracting
         /\ call'.reservation_status = call.reservation_status
         /\ artifact'.answers_json = artifact.answers_json)]_vars

\* C34. In every reachable state, is_extracting = true implies status =
\* completed: a call is never failed, queued, calling or connected while it is
\* marked as extracting.
C34_ExtractingIsCompleted ==
  call.is_extracting => call.status = "completed"

\* No handler is in progress: every request is waiting to arrive or has returned.
Quiescent == \A r \in Requests : req[r].pc \in {"idle", "done"}

\* C35. In every state in which no handler is in progress, status = failed
\* implies answers_json is null, after any sequence and any interleaving of
\* deliveries.
C35_FailedHasNoAnswers ==
  (Quiescent /\ call.status = "failed") => artifact.answers_json = NONE

\* C36. A failed call never keeps a reservation outcome written by an earlier
\* extraction: in every reachable state with status = failed,
\* reservation_status is not "confirmed".
C36_FailedNotConfirmed ==
  call.status = "failed" => call.reservation_status # Some("confirmed")

\* The columns the order of two deliveries is compared on.
Outcome(db) ==
  [status |-> db.call.status,
   is_extracting |-> db.call.is_extracting,
   answers |-> IsSome(db.artifact.answers_json)]

\* C37. Delivery order does not change the outcome: from a non-terminal status,
\* one call_ended and one call_analyzed of the call, processed one after the
\* other, leave the same status, is_extracting and presence of answers_json
\* whichever is processed first.
C37_OrderIndependent ==
  call.status \notin {"completed", "failed"}
  => \A e \in {p \in Payloads : p.event = "call_ended"},
        a \in {p \in Payloads : p.event = "call_analyzed"},
        outcome \in ExtractionOutcomes :
       Outcome(POST(POST(DB, e, outcome).db, a, outcome).db)
         = Outcome(POST(POST(DB, a, outcome).db, e, outcome).db)

\* A call_analyzed has been processed to its end.
AnalyzedProcessed ==
  \E r \in Requests :
    /\ req[r].pc = "done"
    /\ req[r].response = 204
    /\ req[r].payload[1].event = "call_analyzed"

\* C38. No stuck extracting flag: in every state in which no handler is in
\* progress and a call_analyzed has been processed to its end, is_extracting is
\* false, for every interleaving of concurrent deliveries.
C38_NoStuckExtracting ==
  (Quiescent /\ AnalyzedProcessed) => ~call.is_extracting

\* C39. The reservation outcome on the call agrees with the stored answers: for
\* a make_reservation call, in every state in which no handler is in progress
\* and answers_json has a reservation object, reservation_status is that
\* object's status and reservation_result_json is that object, also when two
\* extractions of the call overlap.
C39_ReservationAgrees ==
  (/\ Quiescent
   /\ call.call_intent = "make_reservation"
   /\ IsSome(artifact.answers_json)
   /\ IsSome(artifact.answers_json[1].reservation))
  => (/\ call.reservation_status = Some(artifact.answers_json[1].reservation[1].status)
      /\ call.reservation_result_json = artifact.answers_json[1].reservation)

====
